---- MODULE Spec2Model ----
(***************************************************************************)
(* A model of the BeeOS device filesystem (kernel/src/fs/devfs.c) and of   *)
(* the node creation system call (kernel/src/sys/sys_mknod.c).             *)
(*                                                                         *)
(* The registry devfs_nodes is a sequence of nodes in insertion order, the *)
(* directory tree is the sequence of directory entries in the order they   *)
(* were linked (the child list of an entry d is the subsequence of entries *)
(* whose parent is d).  Strings are sequences of one-character strings.    *)
(* The naming layer (named, dget), vfs_mknod and the drivers are not part  *)
(* of the two source files; they follow the written specification.         *)
(***************************************************************************)
EXTENDS Integers, Sequences, FiniteSets, TLC

VARIABLES
    mounted,      \* devfs_sb_create has run
    devfs_nodes,  \* the registry: nodes [ino, dev, mode] in insertion order
    ino,          \* the static counter of devfs_sb_inode_alloc
    dentries,     \* directory entries [name, inode, parent, ref]; entry 1 is "/"
    curr_link,    \* the static cursor of devfs_dentry_readdir
    crashed,      \* the kernel dereferenced an invalid pointer
    assigned,     \* history: the sequence numbers handed out, in order
    last,         \* history: the last operation, its arguments and its result
    walk,         \* history: the enumeration in progress
    walks         \* history: the enumeration in progress of each directory

vars == <<mounted, devfs_nodes, ino, dentries, curr_link, crashed, assigned, last, walk, walks>>

(***************************************************************************)
(* Bounds of the model.                                                    *)
(***************************************************************************)
MaxIno == 3        \* allocations per run (the root node included)
MaxIONodes == 2    \* allocations per run of the input and output model
BufLen == 2        \* length of the caller's buffer
MaxIndex == 5      \* largest index handed to readdir
MaxPathLen == 4    \* longest path handed to split_path on its own
MaxDirNodes == 2   \* allocations per run when each directory is followed apart
MaxAllNodes == 3   \* allocations per run when every entry point is called

(***************************************************************************)
(* Program constants.  dev.h, errno.h and stat.h are not among the source  *)
(* files: the values are the customary ones, only their being distinct     *)
(* matters.                                                                *)
(***************************************************************************)
DEV_TTY == 1280
DEV_CONSOLE == 1024
DEV_CONSOLE1 == 1025
DEV_CONSOLE2 == 1026
DEV_CONSOLE3 == 1027
DEV_CONSOLE4 == 1028
DEV_INITRD == 256
DEV_ZERO == 261
DEV_NULL == 259
DEV_UNKNOWN == 65535   \* 0xFFFF, what name_to_dev answers for an unknown name
DEV_OTHER == 2457      \* an identifier no driver is registered for
DEV_ROOT == 2304       \* the device id the filesystem is mounted with
EEXIST == 17
ENODEV == 19
S_IFDIR == 16384
S_IFCHR == 8192
NULL == 0 - 1          \* the null node (sequence numbers are >= 0)
NODENT == 0            \* the null directory entry (entries are numbered from 1)

(***************************************************************************)
(* Strings.                                                                *)
(***************************************************************************)
SEP == "/"
DOT == <<".">>
DOTDOT == <<".", ".">>
N_zero == <<"z", "e", "r", "o">>
N_tty1 == <<"t", "t", "y", "1">>
N_tty2 == <<"t", "t", "y", "2">>
N_tty3 == <<"t", "t", "y", "3">>
N_tty4 == <<"t", "t", "y", "4">>
N_initrd == <<"i", "n", "i", "t", "r", "d">>
N_zero2 == <<"z", "e", "r", "o", "2">>

\* dev_name_map, in table order
dev_name_map ==
    << [name |-> N_zero, dev |-> DEV_ZERO],
       [name |-> N_tty1, dev |-> DEV_CONSOLE1],
       [name |-> N_tty2, dev |-> DEV_CONSOLE2],
       [name |-> N_tty3, dev |-> DEV_CONSOLE3],
       [name |-> N_tty4, dev |-> DEV_CONSOLE4],
       [name |-> N_initrd, dev |-> DEV_INITRD] >>

NDEVS == Len(dev_name_map)

\* name_to_dev: the first row whose name matches, else 0xFFFF
RECURSIVE name_scan(_, _)
name_scan(name, i) ==
    IF i > NDEVS THEN DEV_UNKNOWN
    ELSE IF dev_name_map[i].name = name THEN dev_name_map[i].dev
    ELSE name_scan(name, i + 1)

name_to_dev(name) == name_scan(name, 1)

InTable(name) == \E i \in 1..NDEVS : dev_name_map[i].name = name

(***************************************************************************)
(* The registry.                                                           *)
(***************************************************************************)
\* the first node of the list that carries dev, NULL if there is none
RECURSIVE first_with_dev(_, _)
first_with_dev(nodes, dev) ==
    IF nodes = << >> THEN NULL
    ELSE IF Head(nodes).dev = dev THEN Head(nodes).ino
    ELSE first_with_dev(Tail(nodes), dev)

\* devfs_lookup(dir, name) on the registry nodes; dir is the directory's ino
devfs_lookup(nodes, dir, name) ==
    IF name = DOT \/ name = DOTDOT THEN dir
    ELSE first_with_dev(nodes, name_to_dev(name))

\* ino++ in devfs_sb_inode_alloc
NextInoStuck(n) == n
NextIno(n) == n + 1

\* list_insert_before(&devfs_nodes, &inode->link): insertion at the tail
InsertFront(nodes, node) == <<node>> \o nodes
InsertNode(nodes, node) == Append(nodes, node)

\* devfs_sb_inode_alloc: the node as inode_init leaves it (dev 0, no mode)
devfs_sb_inode_alloc(nodes, n) ==
    [nodes |-> InsertNode(nodes, [ino |-> n, dev |-> 0, mode |-> 0]),
     ino   |-> NextIno(n),
     node  |-> n]

\* list_delete(&inode->link)
free_tail(nodes, n) == SubSeq(nodes, 1, Len(nodes) - 1)
devfs_sb_inode_free(nodes, n) == SelectSeq(nodes, LAMBDA x : x.ino /= n)

Inos(nodes) == {nodes[i].ino : i \in 1..Len(nodes)}

NodeOf(nodes, n) == CHOOSE x \in {nodes[i] : i \in 1..Len(nodes)} : x.ino = n

\* the caller's tagging of a fresh node: inode->mode = ..., inode->dev = ...
Tag_all(nodes, n, mode, dev) ==
    [i \in 1..Len(nodes) |-> [ino |-> nodes[i].ino, dev |-> dev, mode |-> mode]]
Tag(nodes, n, mode, dev) ==
    [i \in 1..Len(nodes) |->
        IF nodes[i].ino = n THEN [ino |-> n, dev |-> dev, mode |-> mode]
        ELSE nodes[i]]

(***************************************************************************)
(* The directory tree.                                                     *)
(***************************************************************************)
\* the entries that denote node n
EntriesOf(dents, n) == {d \in 1..Len(dents) : dents[d].inode = n}

\* the entry denoting node n (the first one linked), NODENT if none does
EntryOf(dents, n) ==
    IF EntriesOf(dents, n) = {} THEN NODENT
    ELSE CHOOSE d \in EntriesOf(dents, n) : \A e \in EntriesOf(dents, n) : d <= e

\* the child list of entry d, in insertion order
RECURSIVE ChildrenFrom(_, _, _)
ChildrenFrom(dents, d, i) ==
    IF i > Len(dents) THEN << >>
    ELSE IF dents[i].parent = d THEN <<i>> \o ChildrenFrom(dents, d, i + 1)
    ELSE ChildrenFrom(dents, d, i + 1)

Children(dents, d) == ChildrenFrom(dents, d, 1)

\* dentry_create(name, inode, parent, ops)
dentry_create(dents, name, n, parent) ==
    Append(dents, [name |-> name, inode |-> n, parent |-> parent, ref |-> 0])

\* dget: one more reference on the entry
dget(dents, d) == [dents EXCEPT ![d].ref = @ + 1]

\* the components of a path: the maximal runs without a separator
RECURSIVE Components(_, _)
Components(path, acc) ==
    IF path = << >> THEN (IF acc = << >> THEN << >> ELSE <<acc>>)
    ELSE IF Head(path) = SEP
         THEN (IF acc = << >> THEN << >> ELSE <<acc>>) \o Components(Tail(path), << >>)
         ELSE Components(Tail(path), Append(acc, Head(path)))

\* named: resolve a path from the root entry, one component at a time, each
\* through the lookup operation of the directory's node
RECURSIVE resolve(_, _, _, _)
resolve(nodes, dents, comps, d) ==
    IF comps = << >> THEN d
    ELSE LET n == devfs_lookup(nodes, dents[d].inode, Head(comps))
         IN  IF n = NULL \/ EntryOf(dents, n) = NODENT THEN NODENT
             ELSE resolve(nodes, dents, Tail(comps), EntryOf(dents, n))

named(nodes, dents, path) == resolve(nodes, dents, Components(path, << >>), 1)

\* vfs_mknod(idir, mode, dev): allocate a node, tag it, link an entry for it
\* under the entry of idir.  The call carries no name: nm is the name the
\* naming layer links the entry under.
vfs_mknod(nodes, n, dents, idir, mode, dev, nm) ==
    LET a == devfs_sb_inode_alloc(nodes, n)
    IN  [res   |-> 0,
         nodes |-> Tag(a.nodes, a.node, mode, dev),
         ino   |-> a.ino,
         node  |-> a.node,
         dents |-> dentry_create(dents, nm, a.node, EntryOf(dents, idir))]

(***************************************************************************)
(* sys_mknod.                                                              *)
(***************************************************************************)
\* the index (from 0) split_path stops at: the last separator, 0 if none
LastSep(path) ==
    LET S == {j \in 0..(Len(path) - 1) : path[j + 1] = SEP}
    IN  IF S = {} THEN 0 ELSE CHOOSE j \in S : \A k \in S : k <= j

\* split_path(filepath, parent, name), for a non-empty filepath
split_path(path) ==
    LET i == LastSep(path)
        k == IF path[1] = SEP THEN 1 ELSE 0
    IN  IF i > 0
        THEN [parent |-> SubSeq(path, 1, i),
              name   |-> SubSeq(path, i + k + 1, Len(path))]
        ELSE [parent |-> <<SEP>>,
              name   |-> IF Len(path) > 1 THEN SubSeq(path, 2, Len(path)) ELSE DOT]

\* if (dentry != NULL) return -EEXIST;
ExistsNever(d) == FALSE
Exists(d) == d /= NODENT

\* if (dentry == NULL) return -1;
NoParentNever(d) == FALSE
NoParent(d) == d = NODENT

\* idir = dentry->inod
inod(dents, d) == IF d = NODENT THEN NULL ELSE dents[d].inode

\* if (dchild == NULL) res = -1;
recheck_skip(res, dc) == res
recheck(res, dc) == IF dc = NODENT THEN 0 - 1 ELSE res

\* sys_mknod(pathname, mode, dev).  steps lists the calls made, in order;
\* dchild is what the second resolution answered; ub tells that dget was
\* handed a null entry.
sys_mknod(nodes, n, dents, pathname, mode, dev, nm) ==
    LET d0 == named(nodes, dents, pathname)
        sp == split_path(pathname)
        dp == named(nodes, dents, sp.parent)
        m  == vfs_mknod(nodes, n, dents, inod(dents, dp), mode, dev, nm)
        dc == named(m.nodes, m.dents, pathname)
        same == [nodes |-> nodes, ino |-> n, dents |-> dents, node |-> NULL, ub |-> FALSE,
                 dchild |-> NODENT]
    IN  IF Exists(d0)
        THEN [res |-> 0 - EEXIST, steps |-> <<"named">>] @@ same
        ELSE IF NoParent(dp)
        THEN [res |-> 0 - 1, steps |-> <<"named", "split_path", "named">>] @@ same
        ELSE IF m.res /= 0
        THEN [res |-> m.res, nodes |-> m.nodes, ino |-> m.ino, dents |-> m.dents,
              node |-> m.node, ub |-> FALSE, dchild |-> NODENT,
              steps |-> <<"named", "split_path", "named", "vfs_mknod">>]
        ELSE [res   |-> recheck(m.res, dc),
              nodes |-> m.nodes,
              ino   |-> m.ino,
              dents |-> IF dc = NODENT THEN m.dents ELSE dget(m.dents, dc),
              node  |-> m.node,
              ub    |-> dc = NODENT,
              dchild |-> dc,
              steps |-> <<"named", "split_path", "named", "vfs_mknod", "named", "dget">>]

(***************************************************************************)
(* Device dispatch.  A driver call is an input of the model: drv is what   *)
(* the driver returns, dbuf the buffer as the driver leaves it.            *)
(***************************************************************************)
TtyDevs == {DEV_TTY, DEV_CONSOLE, DEV_CONSOLE1, DEV_CONSOLE2, DEV_CONSOLE3, DEV_CONSOLE4}

\* memset(buf, 0, count), count <= Len(buf)
memset_skip(buf, count) == buf
memset0(buf, count) == [i \in 1..Len(buf) |-> IF i <= count THEN 0 ELSE buf[i]]

\* the default branch of both switches
NoDevicePass(count) == count
NoDevice(count) == 0 - ENODEV

\* devfs_inode_read(inode, buf, count, offset), dev = inode->dev
devfs_inode_read(dev, buf, count, offset, drv, dbuf) ==
    IF dev \in TtyDevs
    THEN [n |-> drv, buf |-> dbuf, driver |-> "tty_read"]
    ELSE IF dev = DEV_INITRD
    THEN [n |-> drv, buf |-> dbuf, driver |-> "ramdisk_read"]
    ELSE IF dev = DEV_ZERO
    THEN [n |-> count, buf |-> memset0(buf, count), driver |-> "none"]
    ELSE IF dev = DEV_NULL
    THEN [n |-> count, buf |-> buf, driver |-> "none"]
    ELSE [n |-> NoDevice(count), buf |-> buf, driver |-> "none"]

\* devfs_inode_write(inode, buf, count, offset): buf is const
devfs_inode_write(dev, buf, count, offset, drv) ==
    IF dev \in TtyDevs
    THEN [n |-> drv, buf |-> buf, driver |-> "tty_write"]
    ELSE IF dev = DEV_INITRD
    THEN [n |-> drv, buf |-> buf, driver |-> "ramdisk_write"]
    ELSE IF dev = DEV_ZERO \/ dev = DEV_NULL
    THEN [n |-> count, buf |-> buf, driver |-> "none"]
    ELSE [n |-> NoDevice(count), buf |-> buf, driver |-> "none"]

\* dev_to_inode(dev): the scan leaves in inode the node it looked at last,
\* a match or not; prev is that node, WILD while inode is not yet assigned
WILD == 0 - 2
RECURSIVE dev_scan(_, _, _)
dev_scan(nodes, dev, prev) ==
    IF nodes = << >> THEN prev
    ELSE IF Head(nodes).dev = dev THEN Head(nodes).ino
    ELSE dev_scan(Tail(nodes), dev, Head(nodes).ino)

dev_to_inode(nodes, dev) == dev_scan(nodes, dev, WILD)

\* devfs_read(dev, buf, size, off), for a registry that is not empty
devfs_read(nodes, dev, buf, size, off, drv, dbuf) ==
    LET inode == dev_to_inode(nodes, dev)
    IN  IF inode /= NULL
        THEN [on |-> NodeOf(nodes, inode).dev]
                 @@ devfs_inode_read(NodeOf(nodes, inode).dev, buf, size, off, drv, dbuf)
        ELSE [on |-> NULL, n |-> 0 - 1, buf |-> buf, driver |-> "none"]

\* devfs_write(dev, buf, size, off), for a registry that is not empty
devfs_write(nodes, dev, buf, size, off, drv) ==
    LET inode == dev_to_inode(nodes, dev)
    IN  IF inode /= NULL
        THEN [on |-> NodeOf(nodes, inode).dev]
                 @@ devfs_inode_write(NodeOf(nodes, inode).dev, buf, size, off, drv)
        ELSE [on |-> NULL, n |-> 0 - 1, buf |-> buf, driver |-> "none"]

(***************************************************************************)
(* Directory iteration.  The cursor is null (never set), the head of the   *)
(* child list of entry d, the link of entry d, or wild.                    *)
(***************************************************************************)
HeadOf(d) == [kind |-> "head", d |-> d]
LinkOf(d) == [kind |-> "entry", d |-> d]
WildCursor == [kind |-> "wild", d |-> NODENT]
GARBAGE == <<"?">>      \* a name read from memory that holds no entry
UNSET == << >>          \* d_name as the caller handed it in
D_GARBAGE == 0 - 2      \* a d_ino read from memory that holds no entry
D_UNSET == 0 - 1        \* d_ino as the caller handed it in

\* dir->child.next
first_link(dents, dir) ==
    IF Children(dents, dir) = << >> THEN HeadOf(dir) ELSE LinkOf(Children(dents, dir)[1])

\* the link after the link of entry e in its parent's child list
after_entry(dents, e) ==
    LET ch == Children(dents, dents[e].parent)
        k  == CHOOSE j \in 1..Len(ch) : ch[j] = e
    IN  IF k = Len(ch) THEN HeadOf(dents[e].parent) ELSE LinkOf(ch[k + 1])

\* curr_link = curr_link->next
link_stay(dents, c) == c
link_next(dents, c) ==
    IF c.kind = "entry" THEN after_entry(dents, c.d)
    ELSE IF c.kind = "head" THEN first_link(dents, c.d)
    ELSE WildCursor

\* if (i == 2) curr_link = dir->child.next;
restart_never(dents, dir, i, c) == c
restart(dents, dir, i, c) == IF i = 2 THEN first_link(dents, dir) ELSE c

\* devfs_dentry_readdir(dir, i, dent).  ub tells that the cursor was not the
\* link of an entry when it was taken for one; the result is then whatever
\* the memory around the cursor holds.
devfs_dentry_readdir(dents, dir, i, c) ==
    LET c1 == restart(dents, dir, i, c)
    IN  IF i = 0
        THEN [res |-> 0, name |-> DOT, d_ino |-> D_UNSET, cursor |-> c, ub |-> FALSE]
        ELSE IF i = 1
        THEN [res |-> 0, name |-> DOTDOT, d_ino |-> D_UNSET, cursor |-> c, ub |-> FALSE]
        ELSE IF c1 = HeadOf(dir)
        THEN [res |-> 0 - 1, name |-> UNSET, d_ino |-> D_UNSET, cursor |-> c1, ub |-> FALSE]
        ELSE IF c1.kind = "entry"
        THEN [res |-> 0, name |-> dents[c1.d].name, d_ino |-> dents[c1.d].inode,
              cursor |-> link_next(dents, c1), ub |-> FALSE]
        ELSE [res |-> 0, name |-> GARBAGE, d_ino |-> D_GARBAGE,
              cursor |-> link_next(dents, c1), ub |-> TRUE]

(***************************************************************************)
(* Inputs.                                                                 *)
(***************************************************************************)
P_root == <<"/">>
P_zero == <<"/", "z", "e", "r", "o">>
P_zero2 == <<"/", "z", "e", "r", "o", "2">>
P_np_x == <<"n", "p", "/", "x">>

Paths == {P_root, P_zero, P_zero2, N_zero2, P_np_x}
NodeDevs == {DEV_ZERO, DEV_UNKNOWN, DEV_OTHER}
Modes == {S_IFCHR}
EntryNames == {N_zero}
DirNames == {N_zero, N_zero2}
LookupNames == {DOT, N_zero, N_zero2}

RootIno == dentries[1].inode
NoOp == [op |-> "none"]
NoWalk == [active |-> FALSE]
NoCursor == [kind |-> "null", d |-> NODENT]

(***************************************************************************)
(* The state machine.                                                      *)
(***************************************************************************)
Init ==
    /\ mounted = FALSE
    /\ devfs_nodes = << >>
    /\ ino = 0
    /\ dentries = << >>
    /\ curr_link = NoCursor
    /\ crashed = FALSE
    /\ assigned = << >>
    /\ last = NoOp
    /\ walk = NoWalk
    /\ walks = {}

\* devfs_sb_create(dev)
Mount ==
    /\ ~mounted
    /\ LET a == devfs_sb_inode_alloc(<< >>, ino)
       IN  /\ devfs_nodes' = Tag(a.nodes, a.node, S_IFDIR, DEV_ROOT)
           /\ ino' = a.ino
           /\ assigned' = Append(assigned, a.node)
           /\ dentries' = dentry_create(<< >>, <<SEP>>, a.node, NODENT)
    /\ mounted' = TRUE
    /\ last' = [op |-> "mount"]
    /\ UNCHANGED <<curr_link, crashed, walk, walks>>

\* the superblock operation inode_alloc, called on its own
AllocIn(max) ==
    /\ mounted /\ ~crashed /\ ino < max
    /\ LET a == devfs_sb_inode_alloc(devfs_nodes, ino)
       IN  /\ devfs_nodes' = a.nodes
           /\ ino' = a.ino
           /\ assigned' = Append(assigned, a.node)
           /\ last' = [op |-> "alloc", node |-> a.node, pre_nodes |-> devfs_nodes,
                       pre_ino |-> ino]
    /\ walk' = NoWalk
    /\ walks' = {}
    /\ UNCHANGED <<mounted, dentries, curr_link, crashed>>

Alloc == AllocIn(MaxIno)

\* the superblock operation inode_free, on a live node nothing refers to
Free ==
    /\ mounted /\ ~crashed
    /\ \E n \in Inos(devfs_nodes) :
          /\ n /= RootIno
          /\ EntriesOf(dentries, n) = {}
          /\ devfs_nodes' = devfs_sb_inode_free(devfs_nodes, n)
          /\ last' = [op |-> "free", node |-> n, pre_nodes |-> devfs_nodes,
                      pre_ino |-> ino,
                      prev |-> IF last.op = "alloc" THEN last ELSE NoOp]
    /\ walk' = NoWalk
    /\ walks' = {}
    /\ UNCHANGED <<mounted, ino, dentries, curr_link, crashed, assigned>>

\* vfs_mknod(idir, mode, dev) on a directory node that has an entry
MknodIn(devs, names, max) ==
    /\ mounted /\ ~crashed /\ ino < max
    /\ \E idir \in Inos(devfs_nodes), mode \in Modes, dev \in devs, nm \in names :
          /\ EntryOf(dentries, idir) /= NODENT
          /\ LET m == vfs_mknod(devfs_nodes, ino, dentries, idir, mode, dev, nm)
             IN  /\ devfs_nodes' = m.nodes
                 /\ ino' = m.ino
                 /\ dentries' = m.dents
                 /\ assigned' = Append(assigned, m.node)
                 /\ last' = [op |-> "mknod", idir |-> idir, mode |-> mode, dev |-> dev,
                             res |-> m.res, node |-> m.node, pre_nodes |-> devfs_nodes,
                             pre_ino |-> ino]
    /\ walk' = NoWalk
    /\ walks' = {}
    /\ UNCHANGED <<mounted, curr_link, crashed>>

Mknod == MknodIn(NodeDevs, EntryNames, MaxIno)

\* sys_mknod(pathname, mode, dev).  When dget is handed a null entry the
\* kernel either faults or goes on to return res.
CreateNodeIn(devs, max) ==
    /\ mounted /\ ~crashed
    /\ \E path \in Paths, mode \in Modes, dev \in devs, nm \in EntryNames :
          LET r == sys_mknod(devfs_nodes, ino, dentries, path, mode, dev, nm)
          IN  /\ r.ino <= max
              /\ devfs_nodes' = r.nodes
              /\ ino' = r.ino
              /\ dentries' = r.dents
              /\ assigned' = IF r.node = NULL THEN assigned ELSE Append(assigned, r.node)
              /\ \E fault \in {f \in BOOLEAN : f => r.ub} :
                    /\ crashed' = fault
                    /\ last' = [op |-> "createNode", path |-> path, mode |-> mode,
                                dev |-> dev, res |-> r.res, node |-> r.node,
                                steps |-> r.steps, returned |-> ~fault,
                                dchild |-> r.dchild,
                                pre_nodes |-> devfs_nodes, pre_ino |-> ino,
                                pre_dents |-> dentries]
    /\ walk' = NoWalk
    /\ walks' = {}
    /\ UNCHANGED <<mounted, curr_link>>

CreateNode == CreateNodeIn(NodeDevs, MaxIno)

\* devfs_lookup(dir, name)
Lookup ==
    /\ mounted /\ ~crashed
    /\ \E dir \in Inos(devfs_nodes), name \in LookupNames :
          last' = [op |-> "lookup", dir |-> dir, name |-> name,
                   res |-> devfs_lookup(devfs_nodes, dir, name)]
    /\ UNCHANGED <<mounted, devfs_nodes, ino, dentries, curr_link, crashed, assigned, walk, walks>>

Next == Mount \/ Alloc \/ Free \/ Mknod \/ CreateNode \/ Lookup

Spec == Init /\ [][Next]_vars

(***************************************************************************)
(* Device input and output.                                                *)
(***************************************************************************)
IODevs == {DEV_TTY, DEV_INITRD, DEV_ZERO, DEV_NULL, DEV_OTHER}
Bytes == {0, 1}
Buffers == [1..BufLen -> Bytes]
Offsets == {0, 1}
Filled == [i \in 1..BufLen |-> 1]     \* the buffer after a driver wrote into it

MknodIO == MknodIn(IODevs, {N_zero}, MaxIONodes)

\* inode->ops->read(inode, buf, count, offset) on a live node
InodeReadIn(bufs, counts, offsets) ==
    /\ mounted /\ ~crashed
    /\ \E n \in Inos(devfs_nodes), buf \in bufs, count \in counts, offset \in offsets,
          drv \in {0 - 1, 1}, dbuf \in {Filled} :
          LET dev == NodeOf(devfs_nodes, n).dev
              r   == devfs_inode_read(dev, buf, count, offset, drv, dbuf)
          IN  last' = [op |-> "read", node |-> n, dev |-> dev, buf |-> buf,
                       count |-> count, offset |-> offset, n |-> r.n, out |-> r.buf,
                       driver |-> r.driver]
    /\ UNCHANGED <<mounted, devfs_nodes, ino, dentries, curr_link, crashed, assigned, walk, walks>>

\* inode->ops->write(inode, buf, count, offset) on a live node
InodeWriteIn(bufs, counts, offsets) ==
    /\ mounted /\ ~crashed
    /\ \E n \in Inos(devfs_nodes), buf \in bufs, count \in counts, offset \in offsets,
          drv \in {0 - 1, 1} :
          LET dev == NodeOf(devfs_nodes, n).dev
              r   == devfs_inode_write(dev, buf, count, offset, drv)
          IN  last' = [op |-> "write", node |-> n, dev |-> dev, buf |-> buf,
                       count |-> count, offset |-> offset, n |-> r.n, out |-> r.buf,
                       driver |-> r.driver]
    /\ UNCHANGED <<mounted, devfs_nodes, ino, dentries, curr_link, crashed, assigned, walk, walks>>

\* devfs_read(dev, buf, size, off); the registry holds the root at least
DevReadIn(bufs, counts, offsets) ==
    /\ mounted /\ ~crashed /\ devfs_nodes /= << >>
    /\ \E dev \in IODevs, buf \in bufs, count \in counts, offset \in offsets,
          drv \in {0 - 1, 1}, dbuf \in {Filled} :
          LET r == devfs_read(devfs_nodes, dev, buf, count, offset, drv, dbuf)
          IN  last' = [op |-> "devread", dev |-> dev, on |-> r.on, buf |-> buf,
                       count |-> count, offset |-> offset, n |-> r.n, out |-> r.buf,
                       driver |-> r.driver]
    /\ UNCHANGED <<mounted, devfs_nodes, ino, dentries, curr_link, crashed, assigned, walk, walks>>

\* devfs_write(dev, buf, size, off); the registry holds the root at least
DevWriteIn(bufs, counts, offsets) ==
    /\ mounted /\ ~crashed /\ devfs_nodes /= << >>
    /\ \E dev \in IODevs, buf \in bufs, count \in counts, offset \in offsets,
          drv \in {0 - 1, 1} :
          LET r == devfs_write(devfs_nodes, dev, buf, count, offset, drv)
          IN  last' = [op |-> "devwrite", dev |-> dev, on |-> r.on, buf |-> buf,
                       count |-> count, offset |-> offset, n |-> r.n, out |-> r.buf,
                       driver |-> r.driver]
    /\ UNCHANGED <<mounted, devfs_nodes, ino, dentries, curr_link, crashed, assigned, walk, walks>>

InodeRead == InodeReadIn(Buffers, 0..BufLen, Offsets)
InodeWrite == InodeWriteIn(Buffers, 0..BufLen, Offsets)
DevRead == DevReadIn(Buffers, {0, BufLen}, {0})
DevWrite == DevWriteIn(Buffers, {0, BufLen}, {0})

NextIO == Mount \/ MknodIO \/ InodeRead \/ InodeWrite

SpecIO == Init /\ [][NextIO]_vars

\* the device-keyed entry points over the same registries
NextDev == Mount \/ MknodIO \/ DevRead \/ DevWrite
SpecDev == Init /\ [][NextDev]_vars

(***************************************************************************)
(* Directory listing.                                                      *)
(***************************************************************************)
MknodDir == MknodIn({DEV_ZERO}, DirNames, MaxIno)

\* the enumeration history after readdir(dir, i) answered r
walk_after(w, dir, i, r) ==
    LET e == [res |-> r.res, name |-> r.name, d_ino |-> r.d_ino]
    IN  IF i < 2 THEN w
        ELSE IF i = 2 THEN [active |-> TRUE, dir |-> dir, next |-> 3, out |-> <<e>>]
        ELSE IF w.active /\ w.dir = dir /\ w.next = i
        THEN [active |-> TRUE, dir |-> dir, next |-> i + 1, out |-> Append(w.out, e)]
        ELSE NoWalk

\* the enumerations in progress, one at most for each directory, after
\* readdir(dir, i) answered r: index 2 starts the one of dir, the index its
\* enumeration expects next extends it, any other index above 2 ends it
walks_after(ws, dir, i, r) ==
    LET e      == [res |-> r.res, name |-> r.name, d_ino |-> r.d_ino]
        others == {w \in ws : w.dir /= dir}
    IN  IF i < 2 THEN ws
        ELSE IF i = 2 THEN others \cup {[dir |-> dir, next |-> 3, out |-> <<e>>]}
        ELSE others \cup {[dir |-> dir, next |-> i + 1, out |-> Append(w.out, e)] :
                              w \in {v \in ws : v.dir = dir /\ v.next = i}}

\* devfs_dentry_readdir(dir, i, dent) on an entry of the tree.  Taking the
\* cursor for an entry when it is none either faults or answers garbage.
ReaddirIn(each, indices) ==
    /\ mounted /\ ~crashed
    /\ \E dir \in 1..Len(dentries), i \in indices :
          LET r == devfs_dentry_readdir(dentries, dir, i, curr_link)
          IN  /\ curr_link' = r.cursor
              /\ walk' = walk_after(walk, dir, i, r)
              /\ walks' = IF each THEN walks_after(walks, dir, i, r) ELSE walks
              /\ \E fault \in {f \in BOOLEAN : f => r.ub} :
                    /\ crashed' = fault
                    /\ last' = [op |-> "readdir", dir |-> dir, i |-> i, res |-> r.res,
                                name |-> r.name, d_ino |-> r.d_ino, returned |-> ~fault,
                                pre_cursor |-> curr_link]
    /\ UNCHANGED <<mounted, devfs_nodes, ino, dentries, assigned>>

Readdir == ReaddirIn(FALSE, 0..MaxIndex)

NextDir == Mount \/ MknodDir \/ Readdir

SpecDir == Init /\ [][NextDir]_vars

\* the same calls with the enumeration of each directory followed apart
MknodEach == MknodIn({DEV_ZERO}, {N_zero}, MaxDirNodes)
ReaddirEach == ReaddirIn(TRUE, 0..MaxIndex)

NextEach == Mount \/ MknodEach \/ ReaddirEach

SpecEach == Init /\ [][NextEach]_vars

(***************************************************************************)
(* Every entry point together.                                             *)
(***************************************************************************)
InodeReadOne == InodeReadIn({Filled}, {BufLen}, {0})
InodeWriteOne == InodeWriteIn({Filled}, {BufLen}, {0})
DevReadOne == DevReadIn({Filled}, {BufLen}, {0})
DevWriteOne == DevWriteIn({Filled}, {BufLen}, {0})
ReaddirFirst == ReaddirIn(FALSE, {2, 3})

AllocAll == AllocIn(MaxAllNodes)
MknodAll == MknodIn({DEV_ZERO, DEV_OTHER}, {N_zero}, MaxAllNodes)
CreateNodeAll == CreateNodeIn({DEV_ZERO}, MaxAllNodes)

NextAll ==
    \/ Mount \/ AllocAll \/ Free \/ MknodAll \/ CreateNodeAll
    \/ Lookup \/ InodeReadOne \/ InodeWriteOne \/ DevReadOne \/ DevWriteOne
    \/ ReaddirFirst

SpecAll == Init /\ [][NextAll]_vars

(***************************************************************************)
(* Properties.                                                             *)
(***************************************************************************)
Created == last.op = "createNode" /\ last.returned

\* C1: a createNode call that returns a failure status leaves the registry
\* and the directory tree exactly as they were before the call.
C1_FailedCreateLeavesNoTrace ==
    (Created /\ last.res < 0) =>
        (devfs_nodes = last.pre_nodes /\ dentries = last.pre_dents)

\* C2: createNode on a path that already resolves returns -EEXIST, reaches
\* neither the split nor the parent resolution nor mknod, and leaves the
\* registry, the directory tree and the sequence counter unchanged.
C2_ExistingPathRejected ==
    (last.op = "createNode"
        /\ named(last.pre_nodes, last.pre_dents, last.path) /= NODENT) =>
        /\ last.returned
        /\ last.res = 0 - EEXIST
        /\ last.steps = <<"named">>
        /\ devfs_nodes = last.pre_nodes
        /\ Len(devfs_nodes) = Len(last.pre_nodes)
        /\ dentries = last.pre_dents
        /\ ino = last.pre_ino

C2_Witness ==
    /\ Created
    /\ last.path = P_zero2
    /\ last.res = 0 - EEXIST
    /\ Len(devfs_nodes) >= 2

\* C3: createNode on a path that does not resolve and whose parent path, as
\* split_path produces it, does not resolve either returns a negative status
\* without calling mknod; registry and sequence counter are unchanged.
C3_MissingParentRejected ==
    (last.op = "createNode"
        /\ named(last.pre_nodes, last.pre_dents, last.path) = NODENT
        /\ named(last.pre_nodes, last.pre_dents, split_path(last.path).parent) = NODENT) =>
        /\ last.returned
        /\ last.res < 0
        /\ \A k \in 1..Len(last.steps) : last.steps[k] /= "vfs_mknod"
        /\ devfs_nodes = last.pre_nodes
        /\ dentries = last.pre_dents
        /\ ino = last.pre_ino

C3_Witness ==
    /\ Created
    /\ last.path = P_np_x
    /\ last.res = 0 - 1
    /\ last.steps = <<"named", "split_path", "named">>

C5_SequenceNumbersIncrease ==
    /\ \A i, j \in 1..Len(assigned) : i < j => assigned[i] < assigned[j]
    /\ \A i \in 1..Len(assigned) : assigned[i] < ino
    /\ \A k \in 1..Len(devfs_nodes) :
          \E i \in 1..Len(assigned) : assigned[i] = devfs_nodes[k].ino
    /\ \A k, l \in 1..Len(devfs_nodes) :
          k /= l => devfs_nodes[k].ino /= devfs_nodes[l].ino

C5_Witness ==
    /\ last.op = "alloc"
    /\ Len(assigned) = 3
    /\ \E i \in 1..Len(assigned) : assigned[i] \notin Inos(devfs_nodes)
    /\ last.node = 2

\* the leaf of a path that has no separator but an optional leading one
LeafUnderRoot(path) == IF Head(path) = SEP THEN Tail(path) ELSE path
DirectlyUnderRoot(path) ==
    /\ LeafUnderRoot(path) /= << >>
    /\ \A k \in 1..Len(LeafUnderRoot(path)) : LeafUnderRoot(path)[k] /= SEP

\* C6: after createNode(path, mode, id) returned success for a path whose
\* leaf lies directly under the root, lookup(root, leaf) returns the node
\* just created and that node carries id.
C6_CreatedNodeIsFound ==
    (Created /\ last.res = 0 /\ DirectlyUnderRoot(last.path)) =>
        /\ last.node /= NULL
        /\ devfs_lookup(devfs_nodes, RootIno, LeafUnderRoot(last.path)) = last.node
        /\ NodeOf(devfs_nodes, last.node).dev = last.dev

C6_Witness ==
    /\ Created
    /\ last.res = 0
    /\ last.path = P_zero2
    /\ ~InTable(LeafUnderRoot(last.path))
    /\ devfs_lookup(devfs_nodes, RootIno, N_zero2) = last.node

\* what a sequential enumeration must have answered for the j-th request
Expected(dir, j) ==
    LET ch == Children(dentries, dir)
    IN  IF j <= Len(ch)
        THEN [res |-> 0, name |-> dentries[ch[j]].name, d_ino |-> dentries[ch[j]].inode]
        ELSE [res |-> 0 - 1, name |-> UNSET, d_ino |-> D_UNSET]

\* C7: an enumeration by the indices 2, 3, 4, ... with nothing in between
\* answers the children of the directory, each once and in insertion order,
\* with name and sequence number, and -1 from the first index past the last
\* child on.
C7_SequentialEnumeration ==
    walk.active =>
        /\ ~crashed
        /\ \A j \in 1..Len(walk.out) : walk.out[j] = Expected(walk.dir, j)

C7_Witness ==
    /\ walk.active
    /\ Len(Children(dentries, walk.dir)) = 2
    /\ Len(walk.out) = 4
    /\ walk.out[2].res = 0
    /\ walk.out[3].res = 0 - 1
    /\ walk.out[4].res = 0 - 1

\* C8: lookup of a name other than "." and ".." answers NotFound when the
\* name is not in the table, and when no live node carries the mapped id.
C8_UnknownNameNotFound ==
    (last.op = "lookup" /\ last.name /= DOT /\ last.name /= DOTDOT
        /\ (\/ ~InTable(last.name)
            \/ \A k \in 1..Len(devfs_nodes) :
                  devfs_nodes[k].dev /= name_to_dev(last.name))) =>
        last.res = NULL

Registered == TtyDevs \cup {DEV_INITRD, DEV_ZERO, DEV_NULL}

\* C9: read and write on a node whose device id is none of the terminal
\* variants, RAM-disk, zero or null return -ENODEV, call no driver and leave
\* the buffer as it was.
C9_UnregisteredDevice ==
    (last.op \in {"read", "write"} /\ last.dev \notin Registered) =>
        /\ last.n = 0 - ENODEV
        /\ last.driver = "none"
        /\ last.out = last.buf

C9_Witness ==
    /\ last.op = "read"
    /\ last.dev = DEV_OTHER
    /\ last.count = BufLen
    /\ last.n = 0 - ENODEV

\* C10: reading count bytes from zero clears the first count bytes of the
\* buffer and returns count; reading from null returns count and leaves the
\* buffer alone; writing to zero or null returns count; no driver is called.
C10_ZeroAndNull ==
    (last.op \in {"read", "write"} /\ last.dev \in {DEV_ZERO, DEV_NULL}) =>
        /\ last.n = last.count
        /\ last.driver = "none"
        /\ (last.op = "read" /\ last.dev = DEV_ZERO) =>
              /\ \A i \in 1..last.count : last.out[i] = 0
              /\ \A i \in (last.count + 1)..BufLen : last.out[i] = last.buf[i]
        /\ (last.op = "write" \/ last.dev = DEV_NULL) => last.out = last.buf

C10_Witness ==
    /\ last.op = "read"
    /\ last.dev = DEV_ZERO
    /\ last.count = BufLen
    /\ \A i \in 1..BufLen : last.buf[i] = 1 /\ last.out[i] = 0

\* the live nodes that carry dev
Carriers(dev) == {n \in Inos(devfs_nodes) : NodeOf(devfs_nodes, n).dev = dev}

\* the node of a non-empty set of nodes that was inserted first
Earliest(S) == CHOOSE n \in S : \A m \in S : n <= m

AllDevs == NodeDevs \cup {0, DEV_ROOT, DEV_NULL}

\* C11: the lookup by device id answers the live node inserted first among
\* those that carry the id, and none if no live node carries it; a node
\* just created with an id no other live node carries is the one found.
C11_FirstMatchInInsertionOrder ==
    /\ \A dev \in AllDevs :
          first_with_dev(devfs_nodes, dev) =
              IF Carriers(dev) = {} THEN NULL ELSE Earliest(Carriers(dev))
    /\ (last.op = "mknod" /\ Carriers(last.dev) = {last.node}) =>
          first_with_dev(devfs_nodes, last.dev) = last.node
    /\ (last.op = "lookup" /\ last.name /= DOT /\ last.name /= DOTDOT
           /\ Carriers(name_to_dev(last.name)) /= {}) =>
          last.res = Earliest(Carriers(name_to_dev(last.name)))

C11_Witness ==
    /\ last.op = "mknod"
    /\ \E i \in 1..Len(assigned) : assigned[i] \notin Inos(devfs_nodes)
    /\ Carriers(last.dev) = {last.node}
    /\ first_with_dev(devfs_nodes, last.dev) = last.node

C11_WitnessTwo ==
    /\ last.op = "lookup"
    /\ last.name = N_zero
    /\ Cardinality(Carriers(DEV_ZERO)) = 2
    /\ last.res = Earliest(Carriers(DEV_ZERO))

\* the position of node n in a registry
PosIn(nodes, n) == CHOOSE k \in 1..Len(nodes) : nodes[k].ino = n

\* C20: allocate puts the new node at the tail of the registry; free takes
\* out the freed node and nothing else, the other nodes keep their order
\* and no lookup by id answers the freed node; an allocate followed at once
\* by the free of its node gives back the registry as it was, with the
\* sequence counter one larger.
C20_AllocateAndFree ==
    /\ (last.op = "alloc") =>
          /\ Len(devfs_nodes) = Len(last.pre_nodes) + 1
          /\ devfs_nodes[Len(devfs_nodes)].ino = last.node
          /\ \A k \in 1..Len(last.pre_nodes) : devfs_nodes[k] = last.pre_nodes[k]
    /\ (last.op = "free") =>
          /\ last.node \notin Inos(devfs_nodes)
          /\ Inos(devfs_nodes) = Inos(last.pre_nodes) \ {last.node}
          /\ Len(devfs_nodes) = Len(last.pre_nodes) - 1
          /\ \A a, b \in Inos(devfs_nodes) :
                /\ NodeOf(devfs_nodes, a) = NodeOf(last.pre_nodes, a)
                /\ (PosIn(devfs_nodes, a) < PosIn(devfs_nodes, b))
                      <=> (PosIn(last.pre_nodes, a) < PosIn(last.pre_nodes, b))
          /\ \A dev \in AllDevs : first_with_dev(devfs_nodes, dev) /= last.node
          /\ ino = last.pre_ino
    /\ (last.op = "free" /\ last.prev.op = "alloc" /\ last.prev.node = last.node) =>
          /\ devfs_nodes = last.prev.pre_nodes
          /\ ino = last.prev.pre_ino + 1

C20_Witness ==
    /\ last.op = "free"
    /\ last.prev.op = "alloc"
    /\ last.prev.node = last.node
    /\ Len(devfs_nodes) = 2
    /\ devfs_nodes = last.prev.pre_nodes

C20_WitnessMiddle ==
    /\ last.op = "free"
    /\ Len(last.pre_nodes) = 3
    /\ last.pre_nodes[2].ino = last.node

(***************************************************************************)
(* split_path on its own: every non-empty path over a small alphabet.  An  *)
(* empty path makes split_path read past the end of the string.            *)
(***************************************************************************)
PathChars == {SEP, "a", "b"}

RECURSIVE PathsOfLen(_)
PathsOfLen(n) ==
    IF n = 0 THEN {<< >>}
    ELSE {Append(q, c) : q \in PathsOfLen(n - 1), c \in PathChars}

SplitPaths == UNION {PathsOfLen(n) : n \in 1..MaxPathLen}

InitSplit ==
    /\ mounted = FALSE
    /\ devfs_nodes = << >>
    /\ ino = 0
    /\ dentries = << >>
    /\ curr_link = NoCursor
    /\ crashed = FALSE
    /\ assigned = << >>
    /\ walk = NoWalk
    /\ walks = {}
    /\ \E path \in SplitPaths : last = [op |-> "path", path |-> path]

\* split_path(filepath, parent, name)
Split ==
    /\ last.op = "path"
    /\ last' = [op |-> "split", path |-> last.path,
                parent |-> split_path(last.path).parent,
                name |-> split_path(last.path).name]
    /\ UNCHANGED <<mounted, devfs_nodes, ino, dentries, curr_link, crashed, assigned, walk, walks>>

NextSplit == Split

SpecSplit == InitSplit /\ [][NextSplit]_vars

SepPositions(path) == {k \in 1..Len(path) : path[k] = SEP}
FinalSep(path) == CHOOSE k \in SepPositions(path) : \A j \in SepPositions(path) : j <= k
HasSep(q) == \E k \in 1..Len(q) : q[k] = SEP

\* C12: for a path with a separator somewhere after its first character,
\* absolute or relative, parent is what precedes the final separator and
\* name is what follows it, so name holds no separator.
C12_SplitAtFinalSeparator ==
    (last.op = "split" /\ \E k \in SepPositions(last.path) : k > 1) =>
        /\ last.parent = SubSeq(last.path, 1, FinalSep(last.path) - 1)
        /\ last.name = SubSeq(last.path, FinalSep(last.path) + 1, Len(last.path))
        /\ ~HasSep(last.name)

\* C13: for a non-empty path with no separator, or with none but its first
\* character, parent is "/" and name is the path without its leading
\* separator, "." if nothing remains.
C13_LeafUnderRoot ==
    (last.op = "split" /\ \A k \in SepPositions(last.path) : k = 1) =>
        /\ last.parent = <<SEP>>
        /\ last.name = IF LeafUnderRoot(last.path) = << >> THEN DOT
                       ELSE LeafUnderRoot(last.path)

\* C15: for the path "/" and for every path that ends in a separator the
\* name is ".", never the empty string.
C15_EmptyLeafIsDot ==
    (last.op = "split" /\ last.path[Len(last.path)] = SEP) =>
        (last.name = DOT /\ last.name /= << >>)

Called(step) == \E k \in 1..Len(last.steps) : last.steps[k] = step

\* C14: createNode calls dget only on an entry the second resolution of the
\* path answered; when that resolution finds nothing after a successful
\* mknod the call returns a failure without calling dget; a successful
\* call has taken exactly one reference, on the new entry.
C14_ReferenceOnlyOnResolvedEntry ==
    (last.op = "createNode") =>
        /\ Called("dget") => last.dchild /= NODENT
        /\ (Called("vfs_mknod") /\ last.dchild = NODENT) =>
              (last.returned /\ last.res < 0 /\ ~Called("dget"))
        /\ (last.returned /\ last.res = 0) =>
              /\ last.dchild /= NODENT
              /\ dentries[last.dchild].inode = last.node
              /\ dentries[last.dchild].ref = 1
              /\ \A d \in 1..Len(last.pre_dents) : dentries[d] = last.pre_dents[d]

\* C19: devfs_read and devfs_write on an id no live node carries return -1,
\* call no driver and leave the buffer alone; on an id a live node carries
\* they dispatch on that id and on no other node's.
C19_DeviceKeyedEntryPoints ==
    (last.op \in {"devread", "devwrite"}) =>
        /\ (Carriers(last.dev) = {}) =>
              (last.n = 0 - 1 /\ last.driver = "none" /\ last.out = last.buf)
        /\ (Carriers(last.dev) /= {}) => last.on = last.dev

\* C17: index 0 answers "." and index 1 answers ".." for every directory and
\* neither moves the cursor; index 2 answers the first child of the directory
\* (or -1 when it has none) wherever the cursor stood, and the indices 3, 4,
\* ... after it answer the rest of the child list.
C17_DotEntriesAndRestart ==
    (last.op = "readdir") =>
        /\ (last.i = 0) =>
              (last.res = 0 /\ last.name = DOT /\ curr_link = last.pre_cursor)
        /\ (last.i = 1) =>
              (last.res = 0 /\ last.name = DOTDOT /\ curr_link = last.pre_cursor)
        /\ (last.i = 2) =>
              /\ last.returned
              /\ [res |-> last.res, name |-> last.name, d_ino |-> last.d_ino]
                     = Expected(last.dir, 1)
              /\ curr_link = IF Children(dentries, last.dir) = << >>
                              THEN HeadOf(last.dir)
                              ELSE link_next(dentries, first_link(dentries, last.dir))
        /\ (last.i > 2 /\ walk.active) =>
              /\ last.returned
              /\ \A j \in 1..Len(walk.out) : walk.out[j] = Expected(walk.dir, j)

\* index 2 asked while the cursor stood in the middle of a list or at its end
C17_Witness ==
    /\ last.op = "readdir"
    /\ last.i = 2
    /\ last.res = 0
    /\ last.pre_cursor /= first_link(dentries, last.dir)
    /\ last.pre_cursor.kind \in {"entry", "head"}

C17_WitnessDot ==
    /\ last.op = "readdir"
    /\ last.i \in {0, 1}
    /\ last.pre_cursor.kind = "entry"

C17_WitnessRest ==
    /\ last.op = "readdir"
    /\ last.i = 4
    /\ walk.active
    /\ Len(walk.out) = 3
    /\ walk.out[2].res = 0
    /\ walk.out[3].res = 0 - 1

\* C16: with one enumeration at most in progress for each directory, the
\* enumerations of different directories may alternate call by call: each,
\* begun at index 2 and advanced by one, answers the children of its own
\* directory in insertion order and then -1, and no call faults.
C16_InterleavedEnumerations ==
    /\ \A w \in walks : \A j \in 1..Len(w.out) : w.out[j] = Expected(w.dir, j)
    /\ (last.op = "readdir" /\ (\E w \in walks : w.dir = last.dir)) => last.returned

\* the nodes of the registry a that are also in the registry b, in a's order
Surviving(a, b) == SelectSeq(a, LAMBDA x : x.ino \in Inos(b))

ReadOnlyOps == {"lookup", "read", "write", "devread", "devwrite", "readdir"}
RegistryOps == {"alloc", "free", "mknod", "createNode"}

\* C18: after mount, lookup, name resolution, read and write dispatch and
\* readdir leave the registry and the counter as they were; the registry
\* changes in allocate (alone, in mknod or in createNode) and in free only;
\* the nodes that stay keep their order, device identifier and mode.
C18_RegistryFrame ==
    [][mounted =>
          /\ (last'.op \in ReadOnlyOps) => (devfs_nodes' = devfs_nodes /\ ino' = ino)
          /\ (last'.op = "createNode" /\ last'.res = 0 - EEXIST) =>
                (devfs_nodes' = devfs_nodes /\ ino' = ino)
          /\ (devfs_nodes' /= devfs_nodes \/ ino' /= ino) => last'.op \in RegistryOps
          /\ Surviving(devfs_nodes', devfs_nodes) = Surviving(devfs_nodes, devfs_nodes')
      ]_vars

\* a call that only reads has run on a registry that holds a created node
C18_Witness ==
    /\ last.op = "devread"
    /\ last.dev = DEV_ZERO
    /\ last.n = BufLen
    /\ Len(devfs_nodes) = 3
    /\ \E i \in 1..Len(devfs_nodes) : devfs_nodes[i].dev = DEV_ZERO

C18_WitnessFree ==
    /\ last.op = "free"
    /\ Len(devfs_nodes) >= 2
    /\ Len(last.pre_nodes) = Len(devfs_nodes) + 1

====
